---------------------------- MODULE Spec2Model ----------------------------
(***************************************************************************)
(* Model of tools/generate_names.py: the aggregation of the downloaded     *)
(* column definitions into data_organized, the rendering of names.py and   *)
(* the duplicate reports printed to stderr.                                 *)
(*                                                                         *)
(* A Python str is a sequence of one-character strings, so that strip(),   *)
(* sorted(), format() and TextWrapper.wrap() are computed character by     *)
(* character.  The lines of the fixed _header are kept as whole strings:   *)
(* the program only ever copies them.                                      *)
(*                                                                         *)
(* np.bool is read as the builtin bool (NumPy before 1.24, the NumPy the   *)
(* script was written for).                                                *)
(***************************************************************************)
EXTENDS Integers, Sequences, FiniteSets, TLC

(***************************************************************************)
(* Bounds of the model.                                                    *)
(***************************************************************************)
MaxRecords == 2

(***************************************************************************)
(* Python str: code points, comparison, strip, format.                     *)
(***************************************************************************)
Ord ==
    (" " :> 32) @@ ("#" :> 35) @@ ("'" :> 39) @@ ("(" :> 40) @@ (")" :> 41) @@
    ("-" :> 45) @@ ("0" :> 48) @@ ("1" :> 49) @@ ("2" :> 50) @@ ("3" :> 51) @@
    ("4" :> 52) @@ ("5" :> 53) @@ ("6" :> 54) @@ ("7" :> 55) @@ ("8" :> 56) @@
    ("9" :> 57) @@ (":" :> 58) @@ ("=" :> 61) @@ ("A" :> 65) @@ ("B" :> 66) @@
    ("C" :> 67) @@ ("D" :> 68) @@ ("S" :> 83) @@ ("a" :> 97) @@ ("b" :> 98) @@
    ("c" :> 99) @@ ("e" :> 101) @@ ("i" :> 105) @@ ("l" :> 108) @@
    ("p" :> 112) @@ ("s" :> 115) @@ ("t" :> 116) @@ ("u" :> 117) @@
    ("x" :> 120) @@ ("y" :> 121)

\* s < t for two Python str: the first differing code point decides, and a
\* proper prefix is smaller.
RECURSIVE StrLess(_, _)
StrLessByLength(s, t) ==
    \/ Len(s) < Len(t)
    \/ Len(s) = Len(t) /\ s # t /\
       LET d == CHOOSE i \in 1..Len(s) :
                    s[i] # t[i] /\ \A j \in 1..(i - 1) : s[j] = t[j]
       IN  Ord[s[d]] < Ord[t[d]]

StrLess(s, t) ==
    IF t = <<>> THEN FALSE
    ELSE IF s = <<>> THEN TRUE
    ELSE IF s[1] # t[1] THEN Ord[s[1]] < Ord[t[1]]
    ELSE StrLess(Tail(s), Tail(t))

\* sorted(S) for a collection S of distinct str.
RECURSIVE sorted(_)
sorted(S) ==
    IF S = {} THEN <<>>
    ELSE LET least == CHOOSE s \in S : \A t \in S \ {s} : StrLess(s, t)
         IN  <<least>> \o sorted(S \ {least})

IsSpace(c) == c = " "

RECURSIVE lstrip(_)
lstrip(s) ==
    IF s # <<>> /\ IsSpace(s[1]) THEN lstrip(Tail(s)) ELSE s

RECURSIVE rstrip(_)
rstrip(s) ==
    IF s # <<>> /\ IsSpace(s[Len(s)]) THEN rstrip(SubSeq(s, 1, Len(s) - 1)) ELSE s

\* str.strip()
strip(s) == rstrip(lstrip(s))

Digits == <<"0", "1", "2", "3", "4", "5", "6", "7", "8", "9">>

\* "{}".format(n) for a natural number n.
RECURSIVE format(_)
format(n) ==
    IF n < 10 THEN <<Digits[n + 1]>>
    ELSE format(n \div 10) \o <<Digits[(n % 10) + 1]>>

\* The concatenation of a sequence of str.
RECURSIVE join(_)
join(strs) ==
    IF strs = <<>> THEN <<>> ELSE strs[1] \o join(Tail(strs))

(***************************************************************************)
(* TextWrapper(width=80, initial_indent='# ', subsequent_indent='# ').      *)
(***************************************************************************)
width == 80

initial_indent == <<"#", " ">>

subsequent_indent == <<"#", " ">>

\* TextWrapper._split: the maximal runs of whitespace and of other characters.
RECURSIVE SplitChunks(_)
SplitChunks(text) ==
    IF text = <<>> THEN <<>>
    ELSE LET kind == IsSpace(text[1])
             stop == IF \E i \in 1..Len(text) : IsSpace(text[i]) # kind
                     THEN CHOOSE i \in 1..Len(text) :
                              /\ IsSpace(text[i]) # kind
                              /\ \A j \in 1..(i - 1) : IsSpace(text[j]) = kind
                     ELSE Len(text) + 1
         IN  <<SubSeq(text, 1, stop - 1)>> \o
             SplitChunks(SubSeq(text, stop, Len(text)))

\* The inner loop of TextWrapper._wrap_chunks: take chunks while they fit.
RECURSIVE FillLine(_, _, _)
FillLine(chunks, cur_line, room) ==
    IF chunks # <<>> /\ Len(join(cur_line)) + Len(chunks[1]) <= room
    THEN FillLine(Tail(chunks), Append(cur_line, chunks[1]), room)
    ELSE [cur_line |-> cur_line, chunks |-> chunks]

\* TextWrapper._handle_long_word with break_long_words=True: a chunk wider
\* than the line is cut at the space that is left.
HandleLongWord(filled, room) ==
    IF filled.chunks # <<>> /\ Len(filled.chunks[1]) > room
    THEN LET space_left == IF room < 1 THEN 1
                           ELSE room - Len(join(filled.cur_line))
             word       == filled.chunks[1]
         IN  [cur_line |-> Append(filled.cur_line, SubSeq(word, 1, space_left)),
              chunks   |-> <<SubSeq(word, space_left + 1, Len(word))>> \o
                           Tail(filled.chunks)]
    ELSE filled

\* drop_whitespace=True: a line does not end with a whitespace chunk.
DropTrailingSpace(cur_line) ==
    IF cur_line # <<>> /\ strip(cur_line[Len(cur_line)]) = <<>>
    THEN SubSeq(cur_line, 1, Len(cur_line) - 1)
    ELSE cur_line

\* TextWrapper._wrap_chunks.
RECURSIVE WrapChunks(_, _)
WrapChunks(chunks, lines) ==
    IF chunks = <<>> THEN lines
    ELSE LET indent  == IF lines # <<>> THEN subsequent_indent ELSE initial_indent
             room    == width - Len(indent)
             start   == IF strip(chunks[1]) = <<>> /\ lines # <<>>
                        THEN Tail(chunks) ELSE chunks
             filled  == HandleLongWord(FillLine(start, <<>>, room), room)
             curline == DropTrailingSpace(filled.cur_line)
         IN  WrapChunks(filled.chunks,
                        IF curline # <<>>
                        THEN Append(lines, indent \o join(curline))
                        ELSE lines)

\* wrapper.wrap(text): the list of wrapped lines, none for an empty text.
wrap(text) == WrapChunks(SplitChunks(text), <<>>)

(***************************************************************************)
(* Module constants.                                                       *)
(***************************************************************************)
\* The lines print(_header, file=file) writes: the header's own lines and the
\* empty line that print() adds after the header's final newline.
_header ==
   << "##########################################################################",
      "#",
      "# Names that makes it easier to address individual data-columns.",
      "# For example, you can write df[SGA] instead of",
      "# df['Selling, General & Administrative'] to get the same data.",
      "#",
      "# For a better overview of the datasets and their data-columns, see:",
      "# https://simfin.com/data/access/bulk",
      "#",
      "# This file was auto-generated by the script: tools/generate_names.py",
      "#",
      "##########################################################################",
      "# SimFin - Simple financial data for Python.",
      "# www.simfin.com - www.github.com/simfin/simfin",
      "# See README.md for instructions and LICENSE.txt for license details.",
      "##########################################################################",
      "",
      "# Import all the extra names that have been manually defined. This makes",
      "# them available for import through this auto-generated module as well.",
      "from simfin.names_extra import *",
      "",
      "##########################################################################",
      "" >>

SeparatorWidth == 74

_separator == [i \in 1..SeparatorWidth |-> "#"]

(***************************************************************************)
(* Helper-functions.                                                       *)
(***************************************************************************)
\* _get_duplicates(x): np.unique(x, return_index=True) gives the index of the
\* first occurrence of every value; the mask keeps every other element, in
\* the order of x.
DuplicatedValuesOnce(x) ==
    LET RECURSIVE Keep(_, _)
        Keep(i, out) ==
            IF i > Len(x) THEN out
            ELSE Keep(i + 1,
                      IF /\ \E j \in 1..(i - 1) : x[j] = x[i]
                         /\ \A k \in 1..Len(out) : out[k] # x[i]
                      THEN Append(out, x[i]) ELSE out)
    IN  Keep(1, <<>>)

_get_duplicates(x) ==
    LET idx            == {i \in 1..Len(x) : \A j \in 1..(i - 1) : x[j] # x[i]}
        duplicate_mask == [i \in 1..Len(x) |-> i \notin idx]
        RECURSIVE Masked(_)
        Masked(i) ==
            IF i > Len(x) THEN <<>>
            ELSE (IF duplicate_mask[i] THEN <<x[i]>> ELSE <<>>) \o Masked(i + 1)
    IN  Masked(1)

DuplicatesHeader == <<"D", "u", "p", "l", "i", "c", "a", "t", "e", "s", ":", " ">>

PrintNothing(x) == <<>>

\* _print_duplicates(x): the lines it prints to stderr.
_print_duplicates(x) ==
    LET duplicates == _get_duplicates(x)
    IN  IF Len(duplicates) > 0
        THEN <<DuplicatesHeader \o format(Len(duplicates))>> \o
             [i \in 1..Len(duplicates) |-> <<"-", " ">> \o duplicates[i]] \o
             << <<>> >>
        ELSE <<>>

(***************************************************************************)
(* The json data: the records the server can send.                         *)
(***************************************************************************)
Names == {<<"A", "b">>, <<"B">>}

ShortcutLists == {<<>>, << <<"S">>, <<"C">> >>, << <<"S">>, <<"S">> >>}

\* A description of two 40-character words, wider than one wrapped line.
LongDescription ==
    <<" ">> \o [i \in 1..40 |-> "x"] \o <<" ">> \o [i \in 1..40 |-> "y"]

Descriptions == {<<>>, <<" ">>, <<"b", " ">>, LongDescription}

WellFormedRecords ==
    {[name |-> n, shortcuts |-> s] : n \in Names, s \in ShortcutLists}
    \cup {[name |-> n, shortcuts |-> s, description |-> d] :
              n \in Names, s \in ShortcutLists, d \in Descriptions}

MalformedRecords ==
    {[shortcuts |-> << <<"S">> >>], [name |-> <<"B">>]}

InputRecords == WellFormedRecords \cup MalformedRecords

InputData == UNION {[1..n -> InputRecords] : n \in 0..MaxRecords}

(***************************************************************************)
(* _process: the loop over the json data.                                  *)
(***************************************************************************)
\* The value a failed dict subscription stands for; no str equals it.
KeyError == <<"KeyError">>

\* record.get(key, ""), the lookup that never fails.
GetOrEmpty(record, key) ==
    IF key \in DOMAIN record THEN record[key] ELSE <<>>

GetItemOrEmpty(record, key) ==
    IF key \in DOMAIN record THEN record[key] ELSE <<>>

\* record[key]
GetItem(record, key) ==
    IF key \in DOMAIN record THEN record[key] ELSE KeyError

\* data_organized.get(name), or the empty record when it is None.
LookupOrNew(organized, name) ==
    IF name \in DOMAIN organized THEN organized[name]
    ELSE [shortcuts |-> <<>>, descriptions |-> <<>>]

AlwaysAppendDescription(descriptions, description) ==
    descriptions \o <<description>>

PrependDescription(descriptions, description) ==
    IF description # <<>> THEN <<description>> \o descriptions ELSE descriptions

\* Append the description if it is non-empty.
AppendDescription(descriptions, description) ==
    IF description # <<>> THEN descriptions \o <<description>> ELSE descriptions

ExtendWithNewOnly(all, shortcuts) ==
    all \o SelectSeq(shortcuts, LAMBDA v : \A k \in 1..Len(all) : all[k] # v)

\* all_shortcuts += shortcuts
ExtendShortcuts(all, shortcuts) == all \o shortcuts

\* Lines 150-169: the record of this name after one more json record.
Organize(organized, name, shortcuts, description) ==
    LET record_org == LookupOrNew(organized, name)
        updated    ==
            [shortcuts    |-> record_org.shortcuts \o shortcuts,
             descriptions |-> AppendDescription(record_org.descriptions,
                                                description)]
    IN  [n \in DOMAIN organized \cup {name} |->
            IF n = name THEN updated ELSE organized[n]]

(***************************************************************************)
(* _process: the block written for one name.                               *)
(***************************************************************************)
\* Lines 195-204: the description before it is stripped and wrapped.
CombinedDescription(descriptions) ==
    IF Len(descriptions) = 1 THEN descriptions[1]
    ELSE join([i \in 1..Len(descriptions) |->
                  <<"(">> \o format(i) \o <<")", " ">> \o
                  strip(descriptions[i]) \o <<" ">>])

\* Lines 194-212: the comment lines of the descriptions.
DescriptionLines(descriptions) ==
    IF Len(descriptions) > 0
    THEN wrap(strip(CombinedDescription(descriptions)))
    ELSE <<>>

ShortcutsAsListed(shortcuts) == shortcuts

UniqueShortcutsAsListed(shortcuts) ==
    SelectSeq([i \in 1..Len(shortcuts) |->
                  IF \E j \in 1..(i - 1) : shortcuts[j] = shortcuts[i]
                  THEN <<>> ELSE shortcuts[i]],
              LAMBDA v : v # <<>>)

\* sorted(list(set(shortcuts)))
SortedUniqueShortcuts(shortcuts) ==
    sorted({shortcuts[i] : i \in 1..Len(shortcuts)})

\* Lines 219-223: 'CLOSE = SHARE_PRICE = ' and then the quoted name.
AssignmentLine(name, shortcuts) ==
    LET targets == SortedUniqueShortcuts(shortcuts)
    IN  join([i \in 1..Len(targets) |-> targets[i] \o <<" ", "=", " ">>]) \o
        <<"'">> \o name \o <<"'">>

\* The body of the loop over the sorted items.
GroupLines(name, record_org) ==
    DescriptionLines(record_org.descriptions) \o
    <<AssignmentLine(name, record_org.shortcuts)>> \o
    << <<>> >>

NamesDescending(organized) ==
    LET RECURSIVE Order(_)
        Order(S) ==
            IF S = {} THEN <<>>
            ELSE LET last == CHOOSE s \in S : \A t \in S \ {s} : StrLess(t, s)
                 IN  <<last>> \o Order(S \ {last})
    IN  Order(DOMAIN organized)

\* The names in the order of sorted(data_organized.items()): the names are
\* the keys of a dict, so no two items compare equal on the name.
SortedNames(organized) == sorted(DOMAIN organized)

(***************************************************************************)
(* State.                                                                  *)
(***************************************************************************)
VARIABLES
    data,            \* the downloaded json data, a list of records
    pc,              \* where _process is
    next_record,     \* index into data of the record the first loop is at
    data_organized,  \* name -> [shortcuts, descriptions]
    all_names,       \* every name, one per record
    all_shortcuts,   \* every shortcut of every record
    file_state,      \* names.py: "absent", "open" or "closed"
    file,            \* names.py: the lines written
    next_item,       \* index into the sorted items of the second loop
    stderr           \* the lines printed to stderr

vars == <<data, pc, next_record, data_organized, all_names, all_shortcuts,
          file_state, file, next_item, stderr>>

Init ==
    /\ data \in InputData
    /\ pc = "aggregate"
    /\ next_record = 1
    /\ data_organized = <<>>
    /\ all_names = <<>>
    /\ all_shortcuts = <<>>
    /\ file_state = "absent"
    /\ file = <<>>
    /\ next_item = 1
    /\ stderr = <<>>

(***************************************************************************)
(* Actions.                                                                *)
(***************************************************************************)
\* One pass of the loop "for record in data" that runs to its end.
ProcessRecord ==
    /\ pc = "aggregate"
    /\ next_record <= Len(data)
    /\ LET record      == data[next_record]
           name        == GetItem(record, "name")
           shortcuts   == GetItem(record, "shortcuts")
           description == GetOrEmpty(record, "description")
       IN  /\ name # KeyError
           /\ shortcuts # KeyError
           /\ all_names' = Append(all_names, name)
           /\ all_shortcuts' = ExtendShortcuts(all_shortcuts, shortcuts)
           /\ data_organized' =
                  Organize(data_organized, name, shortcuts, description)
    /\ next_record' = next_record + 1
    /\ UNCHANGED <<data, pc, file_state, file, next_item, stderr>>

\* A pass of the loop that ends in a KeyError: record['name'] raises before
\* anything is appended, record['shortcuts'] after the name is appended.
RaiseKeyError ==
    /\ pc = "aggregate"
    /\ next_record <= Len(data)
    /\ LET record    == data[next_record]
           name      == GetItem(record, "name")
           shortcuts == GetItem(record, "shortcuts")
       IN  \/ /\ name = KeyError
              /\ UNCHANGED all_names
           \/ /\ name # KeyError
              /\ shortcuts = KeyError
              /\ all_names' = Append(all_names, name)
    /\ pc' = "failed"
    /\ UNCHANGED <<data, next_record, data_organized, all_shortcuts,
                   file_state, file, next_item, stderr>>

\* open(_output_filename, mode='wt'): the file is created empty.
OpenFile ==
    /\ pc = "aggregate"
    /\ next_record > Len(data)
    /\ file_state' = "open"
    /\ file' = <<>>
    /\ pc' = "header"
    /\ UNCHANGED <<data, next_record, data_organized, all_names,
                   all_shortcuts, next_item, stderr>>

\* print(_header, file=file)
WriteHeader ==
    /\ pc = "header"
    /\ file' = file \o _header
    /\ pc' = "groups"
    /\ UNCHANGED <<data, next_record, data_organized, all_names,
                   all_shortcuts, file_state, next_item, stderr>>

\* The loop over sorted(data_organized.items()) has an item left.
HasNextItem ==
    /\ pc = "groups"
    /\ next_item <= Len(SortedNames(data_organized))

\* One pass of the loop over sorted(data_organized.items()).
WriteGroup ==
    /\ HasNextItem
    /\ LET name == SortedNames(data_organized)[next_item]
       IN  file' = file \o GroupLines(name, data_organized[name])
    /\ next_item' = next_item + 1
    /\ UNCHANGED <<data, pc, next_record, data_organized, all_names,
                   all_shortcuts, file_state, stderr>>

\* print(_separator, file=file), and the end of the with-block closes the file.
WriteSeparator ==
    /\ pc = "groups"
    /\ next_item > Len(SortedNames(data_organized))
    /\ file' = Append(file, _separator)
    /\ file_state' = "closed"
    /\ pc' = "duplicate_names"
    /\ UNCHANGED <<data, next_record, data_organized, all_names,
                   all_shortcuts, next_item, stderr>>

\* _print_duplicates(all_names)
PrintDuplicateNames ==
    /\ pc = "duplicate_names"
    /\ stderr' = stderr \o _print_duplicates(all_names)
    /\ pc' = "duplicate_shortcuts"
    /\ UNCHANGED <<data, next_record, data_organized, all_names,
                   all_shortcuts, file_state, file, next_item>>

\* _print_duplicates(all_shortcuts)
PrintDuplicateShortcuts ==
    /\ pc = "duplicate_shortcuts"
    /\ stderr' = stderr \o _print_duplicates(all_shortcuts)
    /\ pc' = "done"
    /\ UNCHANGED <<data, next_record, data_organized, all_names,
                   all_shortcuts, file_state, file, next_item>>

Next ==
    \/ ProcessRecord
    \/ RaiseKeyError
    \/ OpenFile
    \/ WriteHeader
    \/ WriteGroup
    \/ WriteSeparator
    \/ PrintDuplicateNames
    \/ PrintDuplicateShortcuts

Spec == Init /\ [][Next]_vars

(***************************************************************************)
(* _process as a function of the json data, for data without a KeyError.   *)
(***************************************************************************)
\* The first loop: data_organized after all of the records.
RECURSIVE Aggregate(_)
Aggregate(records) ==
    IF records = <<>> THEN <<>>
    ELSE LET record == records[Len(records)]
         IN  Organize(Aggregate(SubSeq(records, 1, Len(records) - 1)),
                      GetItem(record, "name"),
                      GetItem(record, "shortcuts"),
                      GetOrEmpty(record, "description"))

\* The with-block: every line of names.py.
Render(organized) ==
    _header \o
    join([k \in 1..Len(SortedNames(organized)) |->
             GroupLines(SortedNames(organized)[k],
                        organized[SortedNames(organized)[k]])]) \o
    <<_separator>>

(***************************************************************************)
(* Reading names.py back: the lines after the header, by their shape.      *)
(***************************************************************************)
Body(f) == SubSeq(f, Len(_header) + 1, Len(f))

IsBlankLine(line) == line = <<>>

IsDescriptionLine(line) == Len(line) >= 2 /\ line[1] = "#" /\ line[2] = " "

IsAssignmentLine(line) == line # <<>> /\ line[Len(line)] = "'"

\* The blocks of the body: the lines before each blank line.
RECURSIVE Blocks(_)
Blocks(lines) ==
    IF \A i \in 1..Len(lines) : ~IsBlankLine(lines[i]) THEN <<>>
    ELSE LET b == CHOOSE i \in 1..Len(lines) :
                      /\ IsBlankLine(lines[i])
                      /\ \A j \in 1..(i - 1) : ~IsBlankLine(lines[j])
         IN  <<SubSeq(lines, 1, b - 1)>> \o
             Blocks(SubSeq(lines, b + 1, Len(lines)))

\* What follows the last blank line of the body.
RECURSIVE AfterBlocks(_)
AfterBlocks(lines) ==
    IF \A i \in 1..Len(lines) : ~IsBlankLine(lines[i]) THEN lines
    ELSE LET b == CHOOSE i \in 1..Len(lines) : IsBlankLine(lines[i])
         IN  AfterBlocks(SubSeq(lines, b + 1, Len(lines)))

\* A block is comment lines and then one assignment line.
WellShapedBlock(block) ==
    /\ block # <<>>
    /\ IsAssignmentLine(block[Len(block)])
    /\ \A i \in 1..(Len(block) - 1) : IsDescriptionLine(block[i])

FirstQuote(line) ==
    CHOOSE q \in 1..Len(line) :
        line[q] = "'" /\ \A j \in 1..(q - 1) : line[j] # "'"

\* The name an assignment line assigns: what is between the quotes.
QuotedValue(line) == SubSeq(line, FirstQuote(line) + 1, Len(line) - 1)

\* The assignment targets of 'T1 = T2 = ', in order.
RECURSIVE SplitTargets(_)
SplitTargets(prefix) ==
    IF \A i \in 1..Len(prefix) : prefix[i] # " " THEN <<>>
    ELSE LET e == CHOOSE i \in 1..Len(prefix) :
                      prefix[i] = " " /\ \A j \in 1..(i - 1) : prefix[j] # " "
         IN  <<SubSeq(prefix, 1, e - 1)>> \o
             SplitTargets(SubSeq(prefix, e + 3, Len(prefix)))

Targets(line) == SplitTargets(SubSeq(line, 1, FirstQuote(line) - 1))

BlockAssignment(block) == block[Len(block)]

BlockName(block) == QuotedValue(BlockAssignment(block))

BlockDescriptionLines(block) == SubSeq(block, 1, Len(block) - 1)

\* The text of wrapped comment lines: the lines without their '# ', joined
\* by single spaces.
RECURSIVE Unwrap(_)
Unwrap(lines) ==
    IF lines = <<>> THEN <<>>
    ELSE IF Len(lines) = 1 THEN SubSeq(lines[1], 3, Len(lines[1]))
    ELSE SubSeq(lines[1], 3, Len(lines[1])) \o <<" ">> \o Unwrap(Tail(lines))

FileBlocks == Blocks(Body(file))

(***************************************************************************)
(* The json data, read directly.                                           *)
(***************************************************************************)
WellFormed(records) ==
    \A i \in 1..Len(records) : {"name", "shortcuts"} \subseteq DOMAIN records[i]

Elements(seq) == {seq[i] : i \in 1..Len(seq)}

Count(v, seq) == Cardinality({i \in 1..Len(seq) : seq[i] = v})

RecordsNamed(records, name) == SelectSeq(records, LAMBDA r : r.name = name)

InputNames(records) == {records[i].name : i \in 1..Len(records)}

RawNames(records) == [i \in 1..Len(records) |-> records[i].name]

RawShortcuts(records) == join([i \in 1..Len(records) |-> records[i].shortcuts])

ShortcutsNamed(records, name) == Elements(RawShortcuts(RecordsNamed(records, name)))

\* The non-empty descriptions of a name, in the order of the records.
DescriptionsNamed(records, name) ==
    LET described == SelectSeq(RecordsNamed(records, name),
                               LAMBDA r : /\ "description" \in DOMAIN r
                                          /\ r.description # <<>>)
    IN  [i \in 1..Len(described) |-> described[i].description]

Written == pc \in {"groups", "duplicate_names", "duplicate_shortcuts", "done"}

Finished == pc = "done"

(***************************************************************************)
(* Order of the input records.                                             *)
(***************************************************************************)
Shuffles(records) == Permutations(1..Len(records))

Shuffled(records, p) == [i \in 1..Len(records) |-> records[p[i]]]

\* A shuffle that leaves the records of every name in their relative order.
KeepsOrderWithinNames(records, p) ==
    \A i, j \in 1..Len(records) :
        (i < j /\ records[p[i]].name = records[p[j]].name) => p[i] < p[j]

WithoutDescriptionLines(f) ==
    SelectSeq(Body(f), LAMBDA line : ~IsDescriptionLine(line))

AssignmentLines(f) == SelectSeq(Body(f), IsAssignmentLine)

\* How many assignment lines of the file assign the name.
TimesAssigned(name) ==
    Cardinality({k \in 1..Len(AssignmentLines(file)) :
                     QuotedValue(AssignmentLines(file)[k]) = name})

\* How often the shortcut is a target in the assignment lines of the file.
TimesTarget(shortcut) ==
    Len(SelectSeq(join([k \in 1..Len(AssignmentLines(file)) |->
                           Targets(AssignmentLines(file)[k])]),
                  LAMBDA t : t = shortcut))

\* C2 as stated: every name of the input is assigned by exactly one line and
\* every shortcut of the input is a target exactly once in the whole file.
C2_EachNameAndShortcutOnce ==
    Finished =>
        /\ \A n \in InputNames(data) : TimesAssigned(n) = 1
        /\ \A s \in Elements(RawShortcuts(data)) : TimesTarget(s) = 1

\* C2, amended: every name of the input is assigned by exactly one line, and
\* every shortcut of the input is a target exactly once in the line of each
\* name that carries it and in no other line, so that it is a target once
\* in the whole file exactly when a single name carries it.
C2_EachShortcutOncePerName ==
    Finished =>
        /\ \A n \in InputNames(data) : TimesAssigned(n) = 1
        /\ \A k \in 1..Len(AssignmentLines(file)) :
               LET line == AssignmentLines(file)[k]
               IN  \A s \in Elements(RawShortcuts(data)) :
                       Count(s, Targets(line)) =
                           IF s \in ShortcutsNamed(data, QuotedValue(line))
                           THEN 1 ELSE 0
        /\ \A s \in Elements(RawShortcuts(data)) :
               TimesTarget(s) =
                   Cardinality({n \in InputNames(data) :
                                    s \in ShortcutsNamed(data, n)})

\* A shortcut listed twice under one name and once more under another.
C2_Witness ==
    /\ Finished
    /\ Len(data) = 2
    /\ data[1].name # data[2].name
    /\ data[1].shortcuts = << <<"S">>, <<"S">> >>
    /\ data[2].shortcuts = << <<"S">>, <<"C">> >>

(***************************************************************************)
(* _get_duplicates.                                                        *)
(***************************************************************************)
ExactDuplicates(x) ==
    /\ \A v \in Elements(x) : Count(v, _get_duplicates(x)) = Count(v, x) - 1
    /\ Elements(_get_duplicates(x)) \subseteq Elements(x)

\* C3: _get_duplicates(x) holds k-1 entries for a value that x holds k times
\* and nothing else, for the two lists the program passes to it; the empty
\* list gives the empty list, ["A","A","B"] gives ["A"], and the list passed
\* is still every name of the input after the call.
C3_GetDuplicatesCounts ==
    /\ ExactDuplicates(all_names)
    /\ ExactDuplicates(all_shortcuts)
    /\ _get_duplicates(<<>>) = <<>>
    /\ _get_duplicates(<< <<"A">>, <<"A">>, <<"B">> >>) = << <<"A">> >>
    /\ (WellFormed(data) /\ pc \in {"duplicate_shortcuts", "done"}) =>
           /\ all_names = RawNames(data)
           /\ all_shortcuts = RawShortcuts(data)

\* A shortcut listed three times and another listed once.
C3_Witness ==
    /\ Finished
    /\ Count(<<"S">>, all_shortcuts) = 3
    /\ Count(<<"C">>, all_shortcuts) = 1
    /\ stderr # <<>>

(***************************************************************************)
(* Order of the blocks.                                                    *)
(***************************************************************************)
\* C4: the names of the assignment lines of the file are strictly
\* ascending, at every moment of the writing, so no name has two blocks.
C4_NamesStrictlyAscending ==
    Written =>
        \A k \in 1..(Len(AssignmentLines(file)) - 1) :
            StrLess(QuotedValue(AssignmentLines(file)[k]),
                    QuotedValue(AssignmentLines(file)[k + 1]))

\* The larger name came first in the input, and both blocks are written.
C4_Witness ==
    /\ Finished
    /\ Len(data) = 2
    /\ data[1].name = <<"B">>
    /\ data[2].name = <<"A", "b">>
    /\ Len(AssignmentLines(file)) = 2

(***************************************************************************)
(* The assignment line of a block.                                         *)
(***************************************************************************)
StrictlyAscending(strs) ==
    \A k \in 1..(Len(strs) - 1) : StrLess(strs[k], strs[k + 1])

\* C5: in every block written, the targets of the assignment line are the
\* distinct shortcuts of the records of its name, each once and in strictly
\* ascending order, each followed by " = ", and then comes the quoted name;
\* with no shortcuts the line is the quoted name alone.
C5_AssignmentLineSortedUnique ==
    Written =>
        \A b \in 1..Len(FileBlocks) :
            LET line    == BlockAssignment(FileBlocks[b])
                name    == QuotedValue(line)
                targets == Targets(line)
            IN  /\ WellShapedBlock(FileBlocks[b])
                /\ name \in InputNames(data)
                /\ Elements(targets) = ShortcutsNamed(data, name)
                /\ StrictlyAscending(targets)
                /\ line = join([k \in 1..Len(targets) |->
                                   targets[k] \o <<" ", "=", " ">>]) \o
                          <<"'">> \o name \o <<"'">>
                /\ ShortcutsNamed(data, name) = {} =>
                       line = <<"'">> \o name \o <<"'">>

\* One name, its shortcuts repeated within a record and across its records.
C5_Witness ==
    /\ Finished
    /\ Len(data) = 2
    /\ data[1].name = data[2].name
    /\ data[1].shortcuts = << <<"S">>, <<"S">> >>
    /\ data[2].shortcuts = << <<"S">>, <<"C">> >>
    /\ Targets(BlockAssignment(FileBlocks[1])) = << <<"C">>, <<"S">> >>

(***************************************************************************)
(* A record without a name.                                                *)
(***************************************************************************)
NamelessRecords == {i \in 1..Len(data) : "name" \notin DOMAIN data[i]}

\* C6: when a record of the input has no name, the run never gets past the
\* first such record and never past the first loop, and names.py is never
\* opened or written.
C6_NamelessRecordWritesNothing ==
    NamelessRecords # {} =>
        /\ pc \in {"aggregate", "failed"}
        /\ \A i \in NamelessRecords : next_record <= i
        /\ (pc = "aggregate" /\ next_record \in NamelessRecords) =>
               ENABLED RaiseKeyError /\ ~ENABLED ProcessRecord
        /\ file_state = "absent"
        /\ file = <<>>

\* The run has failed at a nameless record that is not the first record.
C6_Witness ==
    /\ pc = "failed"
    /\ Len(data) = 2
    /\ NamelessRecords = {2}
    /\ Len(all_names) = 1

(***************************************************************************)
(* The description lines of a block.                                       *)
(***************************************************************************)
\* "(i) " before each trimmed description, single spaces between them.
RECURSIVE Numbered(_, _)
Numbered(descriptions, i) ==
    IF i > Len(descriptions) THEN <<>>
    ELSE <<"(">> \o format(i) \o <<")", " ">> \o strip(descriptions[i]) \o
         (IF i < Len(descriptions) THEN <<" ">> ELSE <<>>) \o
         Numbered(descriptions, i + 1)

\* C7 as stated: the description text of a block is the trimmed description
\* when its name has one, and the numbered trimmed descriptions in the order
\* of the records when it has several.
C7_NumberedInEncounterOrder ==
    Written =>
        \A b \in 1..Len(FileBlocks) :
            LET descriptions ==
                    DescriptionsNamed(data, BlockName(FileBlocks[b]))
                text == Unwrap(BlockDescriptionLines(FileBlocks[b]))
            IN  /\ Len(descriptions) = 1 => text = strip(descriptions[1])
                /\ Len(descriptions) > 1 => text = Numbered(descriptions, 1)

\* C7, amended: as stated, but the combined text is trimmed as a whole, so
\* that a last description of whitespace only leaves its index as "(n)"
\* with no space after it.
C7_NumberedThenTrimmed ==
    Written =>
        \A b \in 1..Len(FileBlocks) :
            LET descriptions ==
                    DescriptionsNamed(data, BlockName(FileBlocks[b]))
                text == Unwrap(BlockDescriptionLines(FileBlocks[b]))
            IN  /\ Len(descriptions) = 1 => text = strip(descriptions[1])
                /\ Len(descriptions) > 1 =>
                       text = rstrip(Numbered(descriptions, 1))

\* One name with two different descriptions, the long one first.
C7_Witness ==
    /\ Finished
    /\ Len(data) = 2
    /\ data[1].name = data[2].name
    /\ DescriptionsNamed(data, data[1].name) = <<LongDescription, <<"b", " ">> >>
    /\ Len(BlockDescriptionLines(FileBlocks[1])) > 1

\* C8: a block has description lines only if a record of its name has a
\* non-empty description; without one the block is the assignment line
\* alone, followed by its blank line.
C8_NoDescriptionNoCommentLines ==
    Written =>
        /\ \A b \in 1..Len(FileBlocks) :
               DescriptionsNamed(data, BlockName(FileBlocks[b])) = <<>> =>
                   /\ BlockDescriptionLines(FileBlocks[b]) = <<>>
                   /\ IsAssignmentLine(FileBlocks[b][1])
        /\ \A i \in 1..Len(Body(file)) :
               IsDescriptionLine(Body(file)[i]) =>
                   \E n \in InputNames(data) : DescriptionsNamed(data, n) # <<>>

\* One name, a record without the description field and a record with an
\* empty description.
C8_Witness ==
    /\ Finished
    /\ Len(data) = 2
    /\ data[1].name = data[2].name
    /\ "description" \notin DOMAIN data[1]
    /\ "description" \in DOMAIN data[2]
    /\ data[2].description = <<>>
    /\ Len(FileBlocks) = 1

(***************************************************************************)
(* Duplicates.                                                             *)
(***************************************************************************)
DuplicateCount(x) == Len(x) - Cardinality(Elements(x))

HasDuplicates(records) ==
    DuplicateCount(RawNames(records)) + DuplicateCount(RawShortcuts(records)) > 0

\* names.py is whole: the header, one well-shaped block for every name of
\* the input, each ended by a blank line, and then the separator.
FileComplete ==
    /\ Len(file) > Len(_header)
    /\ SubSeq(file, 1, Len(_header)) = _header
    /\ AfterBlocks(Body(file)) = <<_separator>>
    /\ \A b \in 1..Len(FileBlocks) : WellShapedBlock(FileBlocks[b])
    /\ {BlockName(FileBlocks[b]) : b \in 1..Len(FileBlocks)} = InputNames(data)
    /\ Len(FileBlocks) = Cardinality(InputNames(data))

IsDiagnosticLine(line) ==
    \/ Len(line) >= 2 /\ line[1] = "-" /\ line[2] = " "
    \/ Len(line) >= Len(DuplicatesHeader) /\
       SubSeq(line, 1, Len(DuplicatesHeader)) = DuplicatesHeader

\* A step other than a failure is possible.  WriteGroup is possible exactly
\* when the loop has an item left: the rest of it only writes.
CanStep ==
    \/ ENABLED ProcessRecord
    \/ ENABLED OpenFile
    \/ ENABLED WriteHeader
    \/ HasNextItem
    \/ ENABLED WriteSeparator
    \/ ENABLED PrintDuplicateNames
    \/ ENABLED PrintDuplicateShortcuts

\* C9: on an input that has every key and holds duplicate names or
\* shortcuts the run never fails and can always take its next step until
\* it is done; nothing is printed to stderr before names.py is whole and
\* closed, the file stays whole from then on, no line of it is a diagnostic
\* line, and when the run is done the duplicates have been reported.
C9_DuplicatesAreNoError ==
    (WellFormed(data) /\ HasDuplicates(data)) =>
        /\ pc # "failed"
        /\ ~Finished => CanStep
        /\ stderr # <<>> => file_state = "closed"
        /\ pc \in {"duplicate_names", "duplicate_shortcuts", "done"} =>
               file_state = "closed" /\ FileComplete
        /\ file_state = "closed" => FileComplete
        /\ \A i \in 1..Len(Body(file)) : ~IsDiagnosticLine(Body(file)[i])
        /\ Finished => stderr # <<>>

\* A duplicate name and a duplicate shortcut, both reported after the file.
C9_Witness ==
    /\ Finished
    /\ DuplicateCount(RawNames(data)) > 0
    /\ DuplicateCount(RawShortcuts(data)) > 0
    /\ file_state = "closed"
    /\ Len(stderr) > 3

\* The report of a list: nothing, or the count, an entry per extra
\* occurrence and a blank line.
IsReportOf(lines, x) ==
    IF DuplicateCount(x) = 0 THEN lines = <<>>
    ELSE /\ Len(lines) = DuplicateCount(x) + 2
         /\ lines[1] = DuplicatesHeader \o format(DuplicateCount(x))
         /\ lines[Len(lines)] = <<>>
         /\ \A v \in Elements(x) :
                Count(<<"-", " ">> \o v, SubSeq(lines, 2, Len(lines) - 1))
                    = Count(v, x) - 1

ReportLength(x) == IF DuplicateCount(x) = 0 THEN 0 ELSE DuplicateCount(x) + 2

\* C10: stderr holds the report of the names of all records and then the
\* report of the shortcuts of all records: a name of k records is listed k-1
\* times, a shortcut listed k times in the whole input is listed k-1 times.
C10_ReportsFromRawLists ==
    Finished =>
        LET names     == RawNames(data)
            shortcuts == RawShortcuts(data)
        IN  /\ Len(stderr) = ReportLength(names) + ReportLength(shortcuts)
            /\ IsReportOf(SubSeq(stderr, 1, ReportLength(names)), names)
            /\ IsReportOf(SubSeq(stderr, ReportLength(names) + 1, Len(stderr)),
                          shortcuts)

\* A shortcut repeated within a record and listed again under another name,
\* and no duplicate name.
C10_Witness ==
    /\ Finished
    /\ Len(data) = 2
    /\ data[1].name # data[2].name
    /\ data[1].shortcuts = << <<"S">>, <<"C">> >>
    /\ data[2].shortcuts = << <<"S">>, <<"S">> >>
    /\ Len(stderr) = 4

=============================================================================
